---- MODULE Spec2Model ----
(***************************************************************************)
(* State machine of src/composables/useSubscriptions.js (useSubscriptions).*)
(*                                                                         *)
(* Records are JavaScript objects with identity: `heap` maps an object     *)
(* reference to the object's fields and `subscriptions` is the array of    *)
(* references held by subscriptions.value.  An object that was replaced or *)
(* filtered out of the array stays in `heap` for as long as a suspended    *)
(* handleUpdateNodeCount still holds it in its local subToUpdate.           *)
(*                                                                         *)
(* One action is one macrotask of the event loop: a host call, a timer     *)
(* callback, or the continuation of an awaited remote call, run up to its  *)
(* next await of a remote call.                                            *)
(***************************************************************************)
EXTENDS Integers, Sequences, FiniteSets, Bags, TLC

\* ------------------------------------------------------------------ bounds
MaxStore == 7       \* longest collection, identifiers 1..MaxStore
MaxSubs == 2        \* longest collection where refreshes and timers run
MaxId == 2          \* identifiers 1..MaxId used where refreshes and timers run
MaxTimers == 2      \* interval handles 1..MaxTimers that can be live at once
MaxCount == 1       \* node counts 0..MaxCount reported by the remote calls
MaxInterval == 1    \* interval settings 0..MaxInterval (minutes)
MaxRefresh == 2     \* fetchNodeCount calls in flight at once
MaxBatch == 1       \* timer-issued batchUpdateNodes calls in flight at once

\* ------------------------------------------------------- program constants
subsItemsPerPage == 6

\* ------------------------------------------------------------------ values
IDs == 1..MaxId
AllIds == 1..MaxStore
Handles == 1..MaxTimers
Refs == 1..(MaxStore + MaxRefresh)

\* URLs are character sequences, so that startsWith is computed.
HttpA == <<"h", "t", "t", "p", "s", ":", "a">>
HttpB == <<"h", "t", "t", "p", ":", "b">>
NodeLine == <<"v", "m", ":", "c">>
TextLine == <<"s", "s", ":", "d">>
URLs == {HttpA, HttpB, NodeLine, TextLine}

Null == "null"
Quota == "quota"

Min(S) == CHOOSE x \in S : \A y \in S : x <= y

StartsWith(s, p) == Len(s) >= Len(p) /\ SubSeq(s, 1, Len(p)) = p

IsHttp(url) == StartsWith(url, <<"h", "t", "t", "p">>)

Restrict(f, S) == [x \in S |-> f[x]]

Has(r, f) == f \in DOMAIN r

\* The n lowest elements of S (all of them if S has fewer), ascending.
RECURSIVE Lowest(_, _)
Lowest(S, n) ==
    IF S = {} \/ n = 0 THEN <<>> ELSE <<Min(S)>> \o Lowest(S \ {Min(S)}, n - 1)

Ascending(S) == Lowest(S, Cardinality(S))

Range(s) == {s[i] : i \in DOMAIN s}

\* ------------------------------------------------------------------- state
VARIABLES
    heap,             \* object reference -> fields of the record object
    subscriptions,    \* subscriptions.value: sequence of object references
    subsCurrentPage,  \* subsCurrentPage.value
    updateInterval,   \* updateInterval.value (global, minutes)
    updateTimer,      \* handle of the global timer, 0 for null
    timers,           \* live interval handle -> what its callback refreshes
    phase,            \* "setup" | "mounted" | "unmounted"
    settings,         \* fetchSettings call: "none" | "inflight" | "done"
    zeroed,           \* the host's latest handleUpdateIntervalChange passed 0
    refreshes,        \* bag of handleUpdateNodeCount calls awaiting fetchNodeCount
    batches,          \* bag of timer callbacks awaiting batchUpdateNodes
    bulk,             \* the addSubscriptionsFromBulk call in progress
    toasts,           \* showToast calls of the last step, in order
    dirtied,          \* markDirty was called by the last step
    logged            \* console.error calls of the last step, in order

vars == <<heap, subscriptions, subsCurrentPage, updateInterval, updateTimer,
          timers, phase, settings, zeroed, refreshes, batches, bulk, toasts,
          dirtied, logged>>

\* A record object as the host hands it to add / update / addBulk.
Record(id, url, enabled, interval) ==
    [id |-> id, url |-> url, enabled |-> enabled, nodeCount |-> 0,
     userInfo |-> Null, isUpdating |-> FALSE, updateInterval |-> interval,
     updateTimers |-> {}]

\* Objects still referenced: by the array, or by a suspended refresh.
Roots(subs, rf) == Range(subs) \cup {t.sub : t \in BagToSet(rf)}

Collect(h, subs, rf) == Restrict(h, Roots(subs, rf) \cap DOMAIN h)

\* References for n new objects, none of them in `used`.
NewRefs(used, n) == Lowest(Refs \ used, n)

\* References only carry identity, so every state names its objects one way:
\* the object at position i of the array is object i, and an object that left
\* the array while a refresh holds it moves to a slot above MaxStore, where it
\* stays until the last refresh holding it has finished.
Held(o) ==
    [id |-> o.id, nodeCount |-> o.nodeCount, userInfo |-> o.userInfo,
     isUpdating |-> o.isUpdating]

Canon(h, subs, rf) ==
    LET held == {t.sub : t \in BagToSet(rf)} \ Range(subs)
        stay == {r \in held : r > MaxStore}
        move == Ascending(held \ stay)
        slots == Ascending((Refs \ (1..MaxStore)) \ stay)
        to(r) == IF r \in Range(subs) THEN CHOOSE i \in 1..Len(subs) : subs[i] = r
                 ELSE IF r \in stay THEN r
                 ELSE slots[CHOOSE k \in 1..Len(move) : move[k] = r]
        from(x) == CHOOSE r \in Range(subs) \cup held : to(r) = x
        rename(t) == [t EXCEPT !.sub = to(t.sub)]
        named(x) == CHOOSE t \in DOMAIN rf : rename(t) = x
    IN  [heap |-> [x \in {to(r) : r \in Range(subs) \cup held} |->
                     IF x > MaxStore THEN Held(h[from(x)]) ELSE h[from(x)]],
         subscriptions |-> [i \in 1..Len(subs) |-> i],
         refreshes |-> [x \in {rename(t) : t \in DOMAIN rf} |-> rf[named(x)]]]

\* Identifiers that some object, timer closure or pending call still names.
UsedIds ==
    {heap[r].id : r \in Range(subscriptions)}
      \cup {timers[t].id : t \in DOMAIN timers}
      \cup UNION {Range(b.ids) : b \in BagToSet(batches)}
      \cup Range(bulk.ids)

\* s => s.id === id, as find / findIndex use it: first match, 0 if none.
FindIndex(h, subs, id) ==
    LET S == {i \in 1..Len(subs) : h[subs[i]].id = id}
    IN  IF S = {} THEN 0 ELSE Min(S)

\* ------------------------------------------------------- global scheduler
\* setupAutoUpdate: cancel the tracked timer, then arm one if interval > 0.
setupAutoUpdate(tm, ut, interval) ==
    LET cleared == IF ut # 0 THEN Restrict(tm, DOMAIN tm \ {ut}) ELSE tm
        h == Min(Handles \ DOMAIN cleared)
    IN  IF interval > 0
        THEN [timers |-> [x \in DOMAIN cleared \cup {h} |->
                            IF x = h THEN [kind |-> "global", id |-> 0]
                            ELSE cleared[x]],
              updateTimer |-> h]
        ELSE [timers |-> cleared, updateTimer |-> 0]

CanSetupAutoUpdate(tm, ut, interval) ==
    interval > 0 => Handles \ (DOMAIN tm \ {ut}) # {}

\* ------------------------------------------------------ per-item scheduler
Eligible(o) ==
    o.enabled /\ IsHttp(o.url) /\ o.updateInterval # 0 /\ o.updateInterval > 0

\* clearIndividualUpdateTimers: only the handles tracked on the records that
\* are in the array now.
clearIndividualUpdateTimers(h, subs, tm) ==
    LET tracked == UNION {h[r].updateTimers : r \in Range(subs)}
    IN  [heap |-> [r \in DOMAIN h |->
                     IF r \in Range(subs)
                     THEN [h[r] EXCEPT !.updateTimers = {}] ELSE h[r]],
         timers |-> Restrict(tm, DOMAIN tm \ tracked)]

RECURSIVE ArmFrom(_, _, _, _)
ArmFrom(h, subs, tm, i) ==
    IF i > Len(subs) THEN [heap |-> h, timers |-> tm]
    ELSE IF Eligible(h[subs[i]])
    THEN LET t == Min(Handles \ DOMAIN tm)
             tm1 == [x \in DOMAIN tm \cup {t} |->
                       IF x = t THEN [kind |-> "item", id |-> h[subs[i]].id]
                       ELSE tm[x]]
             h1 == [h EXCEPT ![subs[i]].updateTimers = @ \cup {t}]
         IN  ArmFrom(h1, subs, tm1, i + 1)
    ELSE ArmFrom(h, subs, tm, i + 1)

setupIndividualUpdateTimers(h, subs, tm) ==
    LET c == clearIndividualUpdateTimers(h, subs, tm)
    IN  ArmFrom(c.heap, subs, c.timers, 1)

CanSetupIndividualUpdateTimers(h, subs, tm) ==
    LET c == clearIndividualUpdateTimers(h, subs, tm)
    IN  Cardinality({i \in 1..Len(subs) : Eligible(c.heap[subs[i]])})
          <= Cardinality(Handles \ DOMAIN c.timers)

\* ---------------------------------------------------------------- the store
\* The raw seed records of the host list: a field the seed lacks is not in
\* the record's domain.
RawItems ==
    {[id |-> i, url |-> HttpA, updateInterval |-> MaxInterval] : i \in 1..2}
      \cup {[id |-> i, url |-> HttpB, enabled |-> FALSE, nodeCount |-> MaxCount]
              : i \in 1..2}
      \cup {[url |-> NodeLine, userInfo |-> Quota]}

\* The host lists the three scenarios below start from and switch between.
RefreshLists ==
    {<<>>,
     <<[id |-> 1, url |-> HttpA]>>,
     <<[url |-> NodeLine], [id |-> 1, url |-> HttpB, nodeCount |-> MaxCount]>>}

BatchLists ==
    {<<>>,
     <<[id |-> 1, url |-> HttpA, nodeCount |-> MaxCount]>>,
     <<[id |-> 1, url |-> HttpA], [id |-> 2, url |-> HttpB, userInfo |-> Quota]>>}

TimerLists ==
    {<<>>,
     <<[id |-> 1, url |-> HttpA, updateInterval |-> MaxInterval]>>,
     <<[id |-> 2, url |-> NodeLine, enabled |-> FALSE, updateInterval |-> MaxInterval],
       [id |-> 1, url |-> HttpA]>>}

RawLists ==
    {<<>>} \cup {<<a>> : a \in RawItems}
           \cup {<<a, b>> : a \in RawItems, b \in RawItems}
           \cup RefreshLists \cup BatchLists \cup TimerLists

\* The object initializeSubscriptions makes of one seed; uuid stands for
\* crypto.randomUUID().
Normalize(raw, uuid) ==
    [id |-> IF Has(raw, "id") /\ raw.id # 0 THEN raw.id ELSE uuid,
     url |-> raw.url,
     enabled |-> IF Has(raw, "enabled") THEN raw.enabled ELSE TRUE,
     nodeCount |-> IF Has(raw, "nodeCount") THEN raw.nodeCount ELSE 0,
     isUpdating |-> FALSE,
     userInfo |-> IF Has(raw, "userInfo") THEN raw.userInfo ELSE Null,
     updateInterval |-> IF Has(raw, "updateInterval") THEN raw.updateInterval ELSE 0,
     updateTimers |-> {}]

NeedsUuid(raw) == ~(Has(raw, "id") /\ raw.id # 0)

\* initializeSubscriptions(subsData) on heap h, whose objects `keep` stay
\* referenced; fresh are the identifiers randomUUID can return.
initializeSubscriptions(h, keep, subsData, fresh) ==
    LET refs == NewRefs(keep, Len(subsData))
        uuids == Lowest(fresh, Len(subsData))
        nth(i) == Cardinality({j \in 1..i : NeedsUuid(subsData[j])})
        obj(i) == Normalize(subsData[i],
                            IF NeedsUuid(subsData[i]) THEN uuids[nth(i)] ELSE 0)
    IN  [heap |-> [r \in (keep \cap DOMAIN h) \cup Range(refs) |->
                     IF r \in Range(refs)
                     THEN obj(CHOOSE i \in 1..Len(refs) : refs[i] = r)
                     ELSE h[r]],
         subscriptions |-> refs]

CanInitialize(subsData, fresh) ==
    Cardinality({j \in 1..Len(subsData) : NeedsUuid(subsData[j])})
      <= Cardinality(fresh)

NoBulk == [phase |-> "idle", ids |-> <<>>, called |-> <<>>]

\* The state once useSubscriptions() has returned: the immediate watch has
\* run initializeSubscriptions on the host list (one of `lists`), nothing is
\* mounted yet.
InitWith(lists) ==
    /\ \E raw \in lists :
         LET given == {x.id : x \in {y \in Range(raw) : Has(y, "id")}}
         IN  /\ CanInitialize(raw, AllIds \ given)
             /\ LET r == initializeSubscriptions(<<>>, {}, raw, AllIds \ given)
                IN  heap = r.heap /\ subscriptions = r.subscriptions
    /\ subsCurrentPage = 1
    /\ updateInterval = 0
    /\ updateTimer = 0
    /\ timers = <<>>
    /\ phase = "setup"
    /\ settings = "none"
    /\ zeroed = FALSE
    /\ refreshes = EmptyBag
    /\ batches = EmptyBag
    /\ bulk = NoBulk
    /\ toasts = <<>>
    /\ dirtied = FALSE
    /\ logged = <<>>

Init == InitWith(RawLists)

\* ---------------------------------------------------- single-item refresher
\* handleUpdateNodeCount(subId, isInitialLoad) up to its await: the record is
\* looked up once and held in subToUpdate; calls is the fetchNodeCount call
\* it then waits for (none after the early return), for the URL the held
\* object has; awaited tells that the bulk import's loop awaits the call.
handleUpdateNodeCount(h, subs, subId, isInitialLoad, awaited) ==
    LET i == FindIndex(h, subs, subId)
    IN  IF i = 0 \/ ~IsHttp(h[subs[i]].url)
        THEN [heap |-> h, calls |-> EmptyBag]
        ELSE [heap |-> IF isInitialLoad THEN h
                       ELSE [h EXCEPT ![subs[i]].isUpdating = TRUE],
              calls |-> SetToBag({[sub |-> subs[i], initial |-> isInitialLoad,
                                   awaited |-> awaited]})]

\* What fetchNodeCount can answer: an error, or data with or without fields.
FetchResponses ==
    {[error |-> TRUE], [status |-> "empty"]}
      \cup {[count |-> c, userInfo |-> Quota] : c \in 1..MaxCount}

\* A variant of the continuation below whose catch leaves without the
\* finally block.  RefreshScopesIsUpdating rejects it.
handleUpdateNodeCountResumeNoFinally(h, t, data) ==
    LET ok == ~Has(data, "error")
        written == [h EXCEPT
                      ![t.sub].nodeCount =
                          IF Has(data, "count") /\ data.count # 0
                          THEN data.count ELSE 0,
                      ![t.sub].userInfo =
                          IF Has(data, "userInfo") THEN data.userInfo ELSE Null,
                      ![t.sub].isUpdating = FALSE]
    IN  [heap |-> IF ok THEN written ELSE h,
         toasts |-> IF t.initial THEN <<>>
                    ELSE IF ok THEN << <<"refresh-success">> >>
                    ELSE << <<"refresh-error">> >>,
         dirtied |-> ok /\ ~t.initial,
         logged |-> IF ok THEN <<>> ELSE <<"Failed to fetch node count">>]

\* A variant of the continuation below whose catch writes the defaults and
\* notifies for a silent load too.  FailedRefreshOnlyNotifies rejects it.
handleUpdateNodeCountResumeLoud(h, t, data) ==
    LET ok == ~Has(data, "error")
        written == [h EXCEPT
                      ![t.sub].nodeCount =
                          IF Has(data, "count") /\ data.count # 0
                          THEN data.count ELSE 0,
                      ![t.sub].userInfo =
                          IF Has(data, "userInfo") THEN data.userInfo ELSE Null]
    IN  [heap |-> [written EXCEPT ![t.sub].isUpdating = FALSE],
         toasts |-> IF ok /\ t.initial THEN <<>>
                    ELSE IF ok THEN << <<"refresh-success">> >>
                    ELSE << <<"refresh-error">> >>,
         dirtied |-> ok /\ ~t.initial,
         logged |-> IF ok THEN <<>> ELSE <<"Failed to fetch node count">>]

\* The try / catch / finally of handleUpdateNodeCount on subToUpdate = t.sub.
handleUpdateNodeCountResume(h, t, data) ==
    LET ok == ~Has(data, "error")
        written == [h EXCEPT
                      ![t.sub].nodeCount =
                          IF Has(data, "count") /\ data.count # 0
                          THEN data.count ELSE 0,
                      ![t.sub].userInfo =
                          IF Has(data, "userInfo") THEN data.userInfo ELSE Null]
        after == IF ok THEN written ELSE h
    IN  [heap |-> [after EXCEPT ![t.sub].isUpdating = FALSE],
         toasts |-> IF t.initial THEN <<>>
                    ELSE IF ok THEN << <<"refresh-success">> >>
                    ELSE << <<"refresh-error">> >>,
         dirtied |-> ok /\ ~t.initial,
         logged |-> IF ok THEN <<>> ELSE <<"Failed to fetch node count">>]

\* ------------------------------------------------------------ batch results
PerIdResults(id) ==
    {[id |-> id, success |-> FALSE]}
      \cup {[id |-> id, success |-> TRUE, nodeCount |-> c] : c \in 0..MaxCount}

ResultLists(ids) ==
    {rs \in [1..Len(ids) -> UNION {PerIdResults(i) : i \in Range(ids)}] :
        \A k \in 1..Len(ids) : rs[k].id = ids[k]}

\* What batchUpdateNodes(ids) can answer: a throw, success=false, or
\* success=true with one result per submitted id.
BatchResponses(ids) ==
    {[error |-> TRUE], [success |-> FALSE, results |-> <<>>]}
      \cup {[success |-> TRUE, results |-> rs] : rs \in ResultLists(ids)}

\* result.results.filter(r => r.success).length
SuccessCount(results) == Cardinality({k \in 1..Len(results) : results[k].success})

\* A variant of the forEach below that leaves out `if (updateResult.success)`:
\* a failed per-id result writes a count of 0.  BatchResultFrame rejects it.
RECURSIVE ApplyResultsAll(_, _, _, _)
ApplyResultsAll(h, subs, results, k) ==
    IF k > Len(results) THEN h
    ELSE LET i == FindIndex(h, subs, results[k].id)
             n == IF results[k].success THEN results[k].nodeCount ELSE 0
         IN  IF i # 0
             THEN ApplyResultsAll([h EXCEPT ![subs[i]].nodeCount = n],
                                  subs, results, k + 1)
             ELSE ApplyResultsAll(h, subs, results, k + 1)

\* result.results.forEach(...): nodeCount of the first record with the id of
\* each successful result; nothing else is written.
RECURSIVE ApplyResults(_, _, _, _)
ApplyResults(h, subs, results, k) ==
    IF k > Len(results) THEN h
    ELSE LET i == FindIndex(h, subs, results[k].id)
         IN  IF results[k].success /\ i # 0
             THEN ApplyResults([h EXCEPT ![subs[i]].nodeCount = results[k].nodeCount],
                               subs, results, k + 1)
             ELSE ApplyResults(h, subs, results, k + 1)

\* A variant of the loop below without the await: every remaining id is
\* refreshed at once.  BulkDegradeSequential rejects it.
RECURSIVE DegradeFanOut(_, _, _, _, _)
DegradeFanOut(h, subs, ids, i, called) ==
    IF i > Len(ids)
    THEN [heap |-> h, calls |-> EmptyBag, called |-> called, finished |-> TRUE]
    ELSE LET r == handleUpdateNodeCount(h, subs, ids[i], FALSE, TRUE)
             rest == DegradeFanOut(r.heap, subs, ids, i + 1, Append(called, ids[i]))
         IN  [heap |-> rest.heap, calls |-> r.calls (+) rest.calls,
              called |-> rest.called,
              finished |-> (r.calls (+) rest.calls) = EmptyBag]

\* for (const sub of subsToUpdate) await handleUpdateNodeCount(sub.id):
\* the loop runs on from position i until one call suspends on its fetch.
RECURSIVE DegradeFrom(_, _, _, _, _)
DegradeFrom(h, subs, ids, i, called) ==
    IF i > Len(ids)
    THEN [heap |-> h, calls |-> EmptyBag, called |-> called, finished |-> TRUE]
    ELSE LET r == handleUpdateNodeCount(h, subs, ids[i], FALSE, TRUE)
         IN  IF r.calls = EmptyBag
             THEN DegradeFrom(r.heap, subs, ids, i + 1, Append(called, ids[i]))
             ELSE [heap |-> r.heap, calls |-> r.calls,
                   called |-> Append(called, ids[i]), finished |-> FALSE]

\* ----------------------------------------------------------------- actions
\* onMounted.
Mount ==
    /\ phase = "setup"
    /\ CanSetupIndividualUpdateTimers(heap, subscriptions, timers)
    /\ phase' = "mounted"
    /\ settings' = "inflight"
    /\ LET r == setupIndividualUpdateTimers(heap, subscriptions, timers)
       IN  heap' = r.heap /\ timers' = r.timers
    /\ toasts' = <<>> /\ dirtied' = FALSE /\ logged' = <<>>
    /\ UNCHANGED <<subscriptions, subsCurrentPage, updateInterval, updateTimer,
                   zeroed, refreshes, batches, bulk>>

SettingsResponses ==
    {[error |-> TRUE], [theme |-> "dark"]}
      \cup {[updateInterval |-> v] : v \in 0..MaxInterval}

\* initializeUpdateInterval after its await of fetchSettings.
initializeUpdateInterval(resp) ==
    /\ settings = "inflight"
    /\ settings' = "done"
    /\ logged' = IF Has(resp, "error") THEN <<"Failed to fetch settings">> ELSE <<>>
    /\ IF Has(resp, "error")
       THEN UNCHANGED <<updateInterval, updateTimer, timers>>
       ELSE LET v == IF Has(resp, "updateInterval") THEN resp.updateInterval ELSE 0
            IN  /\ CanSetupAutoUpdate(timers, updateTimer, v)
                /\ updateInterval' = v
                /\ LET r == setupAutoUpdate(timers, updateTimer, v)
                   IN  timers' = r.timers /\ updateTimer' = r.updateTimer
    /\ toasts' = <<>> /\ dirtied' = FALSE
    /\ UNCHANGED <<heap, subscriptions, subsCurrentPage, phase, zeroed,
                   refreshes, batches, bulk>>

handleUpdateIntervalChange(newInterval) ==
    /\ phase = "mounted"
    /\ CanSetupAutoUpdate(timers, updateTimer, newInterval)
    /\ updateInterval' = newInterval
    /\ zeroed' = (newInterval = 0)
    /\ LET r == setupAutoUpdate(timers, updateTimer, newInterval)
       IN  timers' = r.timers /\ updateTimer' = r.updateTimer
    /\ toasts' = <<>> /\ dirtied' = FALSE /\ logged' = <<>>
    /\ UNCHANGED <<heap, subscriptions, subsCurrentPage, phase, settings,
                   refreshes, batches, bulk>>

handleSubscriptionUpdateIntervalChange(subId, newInterval) ==
    /\ phase = "mounted"
    /\ LET i == FindIndex(heap, subscriptions, subId)
       IN  IF i = 0
           THEN UNCHANGED <<heap, timers>>
           ELSE LET h1 == [heap EXCEPT ![subscriptions[i]].updateInterval = newInterval]
                IN  /\ CanSetupIndividualUpdateTimers(h1, subscriptions, timers)
                    /\ LET r == setupIndividualUpdateTimers(h1, subscriptions, timers)
                       IN  heap' = r.heap /\ timers' = r.timers
    /\ toasts' = <<>> /\ dirtied' = FALSE /\ logged' = <<>>
    /\ UNCHANGED <<subscriptions, subsCurrentPage, updateInterval, updateTimer,
                   phase, settings, zeroed, refreshes, batches, bulk>>

\* onUnmounted.
Unmount ==
    /\ phase = "mounted"
    /\ phase' = "unmounted"
    /\ LET cleared == IF updateTimer # 0
                      THEN Restrict(timers, DOMAIN timers \ {updateTimer})
                      ELSE timers
           r == clearIndividualUpdateTimers(heap, subscriptions, cleared)
       IN  heap' = r.heap /\ timers' = r.timers
    /\ updateTimer' = 0
    /\ toasts' = <<>> /\ dirtied' = FALSE /\ logged' = <<>>
    /\ UNCHANGED <<subscriptions, subsCurrentPage, updateInterval, settings,
                   zeroed, refreshes, batches, bulk>>

\* A variant of the watch below whose initializeSubscriptions loads every
\* new record silently, handleUpdateNodeCount(sub.id, true).
\* InitializeStartsNoCall rejects it.
ReinitializeLoading(subsData) ==
    /\ phase = "mounted"
    /\ LET keep == {t.sub : t \in BagToSet(refreshes)}
           given == {x.id : x \in {y \in Range(subsData) : Has(y, "id")}}
           fresh == AllIds \ (UsedIds \cup given)
       IN  /\ CanInitialize(subsData, fresh)
           /\ LET r == initializeSubscriptions(heap, keep, subsData, fresh)
                  loads == SetToBag({[sub |-> x, initial |-> TRUE, awaited |-> FALSE] :
                                       x \in {y \in Range(r.subscriptions) :
                                                IsHttp(r.heap[y].url)}})
                  c == Canon(r.heap, r.subscriptions, refreshes (+) loads)
              IN  /\ heap' = c.heap
                  /\ subscriptions' = c.subscriptions
                  /\ refreshes' = c.refreshes
    /\ toasts' = <<>> /\ dirtied' = FALSE /\ logged' = <<>>
    /\ UNCHANGED <<subsCurrentPage, updateInterval, updateTimer, timers, phase,
                   settings, zeroed, batches, bulk>>

\* The watch on initialSubsRef: the host list changed while mounted.
Reinitialize(subsData) ==
    /\ phase = "mounted"
    /\ LET keep == {t.sub : t \in BagToSet(refreshes)}
           given == {x.id : x \in {y \in Range(subsData) : Has(y, "id")}}
           fresh == AllIds \ (UsedIds \cup given)
       IN  /\ CanInitialize(subsData, fresh)
           /\ LET r == initializeSubscriptions(heap, keep, subsData, fresh)
                  c == Canon(r.heap, r.subscriptions, refreshes)
              IN  /\ heap' = c.heap
                  /\ subscriptions' = c.subscriptions
                  /\ refreshes' = c.refreshes
    /\ toasts' = <<>> /\ dirtied' = FALSE /\ logged' = <<>>
    /\ UNCHANGED <<subsCurrentPage, updateInterval, updateTimer, timers, phase,
                   settings, zeroed, batches, bulk>>

\* The host gives a new record an identifier no one else uses.
NewId == Min(AllIds \ UsedIds)

addSubscription(url, enabled, interval) ==
    /\ phase = "mounted"
    /\ Len(subscriptions) < MaxStore
    /\ AllIds \ UsedIds # {}
    /\ LET ref == Min(Refs \ DOMAIN heap)
           sub == Record(NewId, url, enabled, interval)
           h1 == [r \in DOMAIN heap \cup {ref} |-> IF r = ref THEN sub ELSE heap[r]]
           subs1 == <<ref>> \o subscriptions
           r == handleUpdateNodeCount(h1, subs1, sub.id, FALSE, FALSE)
           c == Canon(r.heap, subs1, refreshes (+) r.calls)
       IN  /\ BagCardinality(refreshes (+) r.calls) <= MaxRefresh
           /\ heap' = c.heap
           /\ subscriptions' = c.subscriptions
           /\ refreshes' = c.refreshes
    /\ subsCurrentPage' = 1
    /\ toasts' = <<>> /\ dirtied' = TRUE /\ logged' = <<>>
    /\ UNCHANGED <<updateInterval, updateTimer, timers, phase, settings, zeroed,
                   batches, bulk>>

\* updateSubscription(updatedSub), updatedSub being the host's edited copy of
\* the stored record: another object with the same id.  The copy has the
\* isUpdating the record had when the host took it (busy); its other fields
\* are the stored ones but for the edited url and enabled.
updateSubscription(id, url, enabled, busy) ==
    /\ phase = "mounted"
    /\ LET index == FindIndex(heap, subscriptions, id)
       IN  IF index = 0
           THEN /\ UNCHANGED <<heap, subscriptions, refreshes>>
                /\ dirtied' = FALSE
           ELSE LET old == heap[subscriptions[index]]
                    changed == old.url # url
                    updatedSub == [old EXCEPT !.url = url, !.enabled = enabled,
                                              !.isUpdating = busy,
                                              !.updateTimers = {},
                                              !.nodeCount = IF changed THEN 0 ELSE @]
                    r == IF changed
                         THEN handleUpdateNodeCount(heap, subscriptions, id, FALSE, FALSE)
                         ELSE [heap |-> heap, calls |-> EmptyBag]
                    rf1 == refreshes (+) r.calls
                    rest == [k \in 1..Len(subscriptions) |->
                               IF k = index THEN 0 ELSE subscriptions[k]]
                    ref == Min(Refs \ ((Range(rest) \cup {t.sub : t \in BagToSet(rf1)})))
                    subs1 == [subscriptions EXCEPT ![index] = ref]
                    h1 == [x \in DOMAIN r.heap \cup {ref} |->
                             IF x = ref THEN updatedSub ELSE r.heap[x]]
                    c == Canon(h1, subs1, rf1)
                IN  /\ BagCardinality(rf1) <= MaxRefresh
                    /\ refreshes' = c.refreshes
                    /\ subscriptions' = c.subscriptions
                    /\ heap' = c.heap
                    /\ dirtied' = TRUE
    /\ toasts' = <<>> /\ logged' = <<>>
    /\ UNCHANGED <<subsCurrentPage, updateInterval, updateTimer, timers, phase,
                   settings, zeroed, batches, bulk>>

subsTotalPages(subs) == (Len(subs) + subsItemsPerPage - 1) \div subsItemsPerPage

paginatedSubscriptions(subs, page) ==
    LET start == (page - 1) * subsItemsPerPage
        end == start + subsItemsPerPage
    IN  SubSeq(subs, start + 1, IF end < Len(subs) THEN end ELSE Len(subs))

changeSubsPage(page) ==
    /\ phase = "mounted"
    /\ IF page < 1 \/ page > subsTotalPages(subscriptions)
       THEN UNCHANGED subsCurrentPage
       ELSE subsCurrentPage' = page
    /\ toasts' = <<>> /\ dirtied' = FALSE /\ logged' = <<>>
    /\ UNCHANGED <<heap, subscriptions, updateInterval, updateTimer, timers,
                   phase, settings, zeroed, refreshes, batches, bulk>>

\* A variant of the removal below that looks at the page's slice before the
\* record is removed.  DeleteStepsPageBack rejects it.
deleteSubscriptionEarlySlice(subId) ==
    /\ phase = "mounted"
    /\ LET keepIt(r) == heap[r].id # subId
           subs1 == SelectSeq(subscriptions, keepIt)
           c == Canon(heap, subs1, refreshes)
       IN  /\ subscriptions' = c.subscriptions
           /\ heap' = c.heap
           /\ refreshes' = c.refreshes
           /\ subsCurrentPage' =
                IF Len(paginatedSubscriptions(subscriptions, subsCurrentPage)) = 0
                   /\ subsCurrentPage > 1
                THEN subsCurrentPage - 1 ELSE subsCurrentPage
    /\ toasts' = <<>> /\ dirtied' = TRUE /\ logged' = <<>>
    /\ UNCHANGED <<updateInterval, updateTimer, timers, phase, settings, zeroed,
                   batches, bulk>>

deleteSubscription(subId) ==
    /\ phase = "mounted"
    /\ LET keepIt(r) == heap[r].id # subId
           subs1 == SelectSeq(subscriptions, keepIt)
           c == Canon(heap, subs1, refreshes)
       IN  /\ subscriptions' = c.subscriptions
           /\ heap' = c.heap
           /\ refreshes' = c.refreshes
           /\ subsCurrentPage' =
                IF Len(paginatedSubscriptions(subs1, subsCurrentPage)) = 0
                   /\ subsCurrentPage > 1
                THEN subsCurrentPage - 1 ELSE subsCurrentPage
    /\ toasts' = <<>> /\ dirtied' = TRUE /\ logged' = <<>>
    /\ UNCHANGED <<updateInterval, updateTimer, timers, phase, settings, zeroed,
                   batches, bulk>>

deleteAllSubscriptions ==
    /\ phase = "mounted"
    /\ LET c == Canon(heap, <<>>, refreshes)
       IN  /\ subscriptions' = c.subscriptions
           /\ heap' = c.heap
           /\ refreshes' = c.refreshes
    /\ subsCurrentPage' = 1
    /\ toasts' = <<>> /\ dirtied' = TRUE /\ logged' = <<>>
    /\ UNCHANGED <<updateInterval, updateTimer, timers, phase, settings, zeroed,
                   batches, bulk>>

\* The host calls the exported handleUpdateNodeCount (the refresh button, or
\* a silent load with isInitialLoad = true).
Refresh(subId, isInitialLoad) ==
    /\ phase = "mounted"
    /\ LET r == handleUpdateNodeCount(heap, subscriptions, subId, isInitialLoad, FALSE)
       IN  /\ BagCardinality(refreshes (+) r.calls) <= MaxRefresh
           /\ heap' = r.heap
           /\ refreshes' = refreshes (+) r.calls
    /\ toasts' = <<>> /\ dirtied' = FALSE /\ logged' = <<>>
    /\ UNCHANGED <<subscriptions, subsCurrentPage, updateInterval, updateTimer,
                   timers, phase, settings, zeroed, batches, bulk>>

\* ------------------------------------------------------------- bulk import
UrlLists == UNION {[1..n -> URLs] : n \in 0..MaxSubs}

\* A variant of the import below that puts the new records in front one by
\* one, the last of the block first.  NewRecordsPrepended rejects it.
addSubscriptionsFromBulkReversed(urls) ==
    /\ phase = "mounted"
    /\ bulk.phase \in {"idle", "degraded"}
    /\ Len(subscriptions) + Len(urls) <= MaxStore
    /\ Cardinality(AllIds \ (UsedIds \ Range(bulk.ids))) >= Len(urls)
    /\ LET ids == Lowest(AllIds \ (UsedIds \ Range(bulk.ids)), Len(urls))
           refs == NewRefs(DOMAIN heap, Len(urls))
           subs == [k \in 1..Len(urls) |-> Record(ids[k], urls[k], TRUE, 0)]
           isHttpAt(k) == IsHttp(urls[k])
           subsToUpdate == SelectSeq([k \in 1..Len(urls) |-> k], isHttpAt)
           c == Canon([r \in DOMAIN heap \cup Range(refs) |->
                         IF r \in Range(refs)
                         THEN subs[CHOOSE k \in 1..Len(refs) : refs[k] = r]
                         ELSE heap[r]],
                      [k \in 1..Len(refs) |-> refs[Len(refs) + 1 - k]] \o subscriptions,
                      refreshes)
       IN  /\ heap' = c.heap
           /\ subscriptions' = c.subscriptions
           /\ refreshes' = c.refreshes
           /\ IF Len(subsToUpdate) > 0
              THEN /\ bulk' = [phase |-> "batch",
                               ids |-> [k \in 1..Len(subsToUpdate) |-> ids[subsToUpdate[k]]],
                               called |-> <<>>]
                   /\ toasts' = << <<"bulk-start", Len(subsToUpdate)>> >>
              ELSE /\ bulk' = NoBulk
                   /\ toasts' = << <<"bulk-done">> >>
    /\ dirtied' = TRUE /\ logged' = <<>>
    /\ UNCHANGED <<subsCurrentPage, updateInterval, updateTimer, timers, phase,
                   settings, zeroed, batches>>

\* addSubscriptionsFromBulk(subs) up to its await of batchUpdateNodes; the
\* imported records are new, enabled and have no interval of their own.
addSubscriptionsFromBulk(urls) ==
    /\ phase = "mounted"
    /\ bulk.phase \in {"idle", "degraded"}
    /\ Len(subscriptions) + Len(urls) <= MaxStore
    /\ Cardinality(AllIds \ (UsedIds \ Range(bulk.ids))) >= Len(urls)
    /\ LET ids == Lowest(AllIds \ (UsedIds \ Range(bulk.ids)), Len(urls))
           refs == NewRefs(DOMAIN heap, Len(urls))
           subs == [k \in 1..Len(urls) |-> Record(ids[k], urls[k], TRUE, 0)]
           isHttpAt(k) == IsHttp(urls[k])
           subsToUpdate == SelectSeq([k \in 1..Len(urls) |-> k], isHttpAt)
           c == Canon([r \in DOMAIN heap \cup Range(refs) |->
                         IF r \in Range(refs)
                         THEN subs[CHOOSE k \in 1..Len(refs) : refs[k] = r]
                         ELSE heap[r]],
                      refs \o subscriptions, refreshes)
       IN  /\ heap' = c.heap
           /\ subscriptions' = c.subscriptions
           /\ refreshes' = c.refreshes
           /\ IF Len(subsToUpdate) > 0
              THEN /\ bulk' = [phase |-> "batch",
                               ids |-> [k \in 1..Len(subsToUpdate) |-> ids[subsToUpdate[k]]],
                               called |-> <<>>]
                   /\ toasts' = << <<"bulk-start", Len(subsToUpdate)>> >>
              ELSE /\ bulk' = NoBulk
                   /\ toasts' = << <<"bulk-done">> >>
    /\ dirtied' = TRUE /\ logged' = <<>>
    /\ UNCHANGED <<subsCurrentPage, updateInterval, updateTimer, timers, phase,
                   settings, zeroed, batches>>

\* addSubscriptionsFromBulk after batchUpdateNodes answered.
addSubscriptionsFromBulkResume(result) ==
    /\ bulk.phase = "batch"
    /\ IF ~Has(result, "error") /\ result.success
       THEN /\ heap' = ApplyResults(heap, subscriptions, result.results, 1)
            /\ toasts' = << <<"bulk-success", SuccessCount(result.results),
                              Len(bulk.ids)>> >>
            /\ dirtied' = TRUE
            /\ logged' = <<>>
            /\ bulk' = NoBulk
            /\ UNCHANGED refreshes
       ELSE LET d == DegradeFrom(heap, subscriptions, bulk.ids, 1, <<>>)
            IN  /\ BagCardinality(refreshes (+) d.calls) <= MaxRefresh
                /\ heap' = d.heap
                /\ refreshes' = refreshes (+) d.calls
                /\ bulk' = [phase |-> IF d.finished THEN "degraded" ELSE "degrade",
                            ids |-> bulk.ids, called |-> d.called]
                /\ toasts' = IF Has(result, "error") THEN << <<"bulk-error">> >>
                             ELSE << <<"bulk-error">>, <<"degrade-info">> >>
                /\ dirtied' = FALSE
                /\ logged' = IF Has(result, "error")
                             THEN <<"Batch update failed">> ELSE <<>>
    /\ UNCHANGED <<subscriptions, subsCurrentPage, updateInterval, updateTimer,
                   timers, phase, settings, zeroed, batches>>

\* fetchNodeCount answered the suspended handleUpdateNodeCount t; when the
\* bulk import's loop awaits it, the loop runs on.
fetchNodeCountReturns(t, data) ==
    /\ BagIn(t, refreshes)
    /\ LET r == handleUpdateNodeCountResume(heap, t, data)
           rf1 == refreshes (-) SetToBag({t})
           d == IF t.awaited
                THEN DegradeFrom(r.heap, subscriptions, bulk.ids,
                                 Len(bulk.called) + 1, bulk.called)
                ELSE [heap |-> r.heap, calls |-> EmptyBag,
                      called |-> bulk.called, finished |-> FALSE]
       IN  /\ refreshes' = rf1 (+) d.calls
           /\ heap' = Collect(d.heap, subscriptions, rf1 (+) d.calls)
           /\ bulk' = IF t.awaited
                      THEN [phase |-> IF d.finished THEN "degraded" ELSE "degrade",
                            ids |-> bulk.ids, called |-> d.called]
                      ELSE bulk
           /\ toasts' = r.toasts
           /\ dirtied' = r.dirtied
           /\ logged' = r.logged
    /\ UNCHANGED <<subscriptions, subsCurrentPage, updateInterval, updateTimer,
                   timers, phase, settings, zeroed, batches>>

\* ------------------------------------------------------------- timer ticks
\* The callback of the global timer, up to its await of batchUpdateNodes.
GlobalTick(h) ==
    /\ h \in DOMAIN timers
    /\ timers[h].kind = "global"
    /\ LET on(r) == heap[r].enabled /\ IsHttp(heap[r].url)
           enabledSubs == SelectSeq(subscriptions, on)
           call == [caller |-> "global",
                    ids |-> [k \in 1..Len(enabledSubs) |-> heap[enabledSubs[k]].id]]
       IN  IF Len(enabledSubs) > 0
           THEN /\ BagCardinality(batches) < MaxBatch
                /\ batches' = batches (+) SetToBag({call})
           ELSE UNCHANGED batches
    /\ toasts' = <<>> /\ dirtied' = FALSE /\ logged' = <<>>
    /\ UNCHANGED <<heap, subscriptions, subsCurrentPage, updateInterval,
                   updateTimer, timers, phase, settings, zeroed, refreshes, bulk>>

\* A variant of the callback below that calls the single-item refresher,
\* handleUpdateNodeCount(sub.id).  ItemTickCallsBatch rejects it.
ItemTickRefreshing(h) ==
    /\ h \in DOMAIN timers
    /\ timers[h].kind = "item"
    /\ LET r == handleUpdateNodeCount(heap, subscriptions, timers[h].id, FALSE, FALSE)
       IN  /\ BagCardinality(refreshes (+) r.calls) <= MaxRefresh
           /\ heap' = r.heap
           /\ refreshes' = refreshes (+) r.calls
    /\ toasts' = <<>> /\ dirtied' = FALSE /\ logged' = <<>>
    /\ UNCHANGED <<subscriptions, subsCurrentPage, updateInterval, updateTimer,
                   timers, phase, settings, zeroed, batches, bulk>>

\* The callback of a record's own timer, up to its await of batchUpdateNodes.
ItemTick(h) ==
    /\ h \in DOMAIN timers
    /\ timers[h].kind = "item"
    /\ BagCardinality(batches) < MaxBatch
    /\ batches' = batches (+) SetToBag({[caller |-> "item", ids |-> <<timers[h].id>>]})
    /\ toasts' = <<>> /\ dirtied' = FALSE /\ logged' = <<>>
    /\ UNCHANGED <<heap, subscriptions, subsCurrentPage, updateInterval,
                   updateTimer, timers, phase, settings, zeroed, refreshes, bulk>>

\* A variant of the continuation below that degrades as the bulk import does:
\* on failure it starts a single-item refresh of the batch's first id.
\* GlobalTickOnlyLogs rejects it.
TickResumeDegrading(b, result) ==
    /\ BagIn(b, batches)
    /\ batches' = batches (-) SetToBag({b})
    /\ IF ~Has(result, "error") /\ result.success
       THEN /\ heap' = ApplyResults(heap, subscriptions, result.results, 1)
            /\ toasts' = IF b.caller = "global"
                         THEN << <<"auto-success", SuccessCount(result.results),
                                   Len(b.ids)>> >>
                         ELSE << <<"item-success">> >>
            /\ dirtied' = TRUE
            /\ logged' = <<>>
            /\ UNCHANGED refreshes
       ELSE LET r == handleUpdateNodeCount(heap, subscriptions, b.ids[1], FALSE, FALSE)
            IN  /\ BagCardinality(refreshes (+) r.calls) <= MaxRefresh
                /\ heap' = r.heap
                /\ refreshes' = refreshes (+) r.calls
                /\ toasts' = <<>>
                /\ dirtied' = FALSE
                /\ logged' = <<IF b.caller = "global" THEN "Auto update failed"
                               ELSE "Individual auto update failed">>
    /\ UNCHANGED <<subscriptions, subsCurrentPage, updateInterval, updateTimer,
                   timers, phase, settings, zeroed, bulk>>

\* A timer callback after batchUpdateNodes answered.
TickResume(b, result) ==
    /\ BagIn(b, batches)
    /\ batches' = batches (-) SetToBag({b})
    /\ IF ~Has(result, "error") /\ result.success
       THEN /\ heap' = ApplyResults(heap, subscriptions, result.results, 1)
            /\ toasts' = IF b.caller = "global"
                         THEN << <<"auto-success", SuccessCount(result.results),
                                   Len(b.ids)>> >>
                         ELSE << <<"item-success">> >>
            /\ dirtied' = TRUE
            /\ logged' = <<>>
       ELSE /\ UNCHANGED heap
            /\ toasts' = <<>>
            /\ dirtied' = FALSE
            /\ logged' = <<IF b.caller = "global" THEN "Auto update failed"
                           ELSE "Individual auto update failed">>
    /\ UNCHANGED <<subscriptions, subsCurrentPage, updateInterval, updateTimer,
                   timers, phase, settings, zeroed, refreshes, bulk>>

\* ------------------------------------------------------------ specification
Next ==
    \/ Mount
    \/ Unmount
    \/ \E resp \in SettingsResponses : initializeUpdateInterval(resp)
    \/ \E n \in 0..MaxInterval : handleUpdateIntervalChange(n)
    \/ \E id \in IDs, n \in 0..MaxInterval :
         handleSubscriptionUpdateIntervalChange(id, n)
    \/ \E raw \in RawLists : Reinitialize(raw)
    \/ \E url \in URLs, en \in BOOLEAN, n \in 0..MaxInterval :
         addSubscription(url, en, n)
    \/ \E id \in IDs, url \in URLs, en \in BOOLEAN, busy \in BOOLEAN :
         updateSubscription(id, url, en, busy)
    \/ \E id \in IDs : deleteSubscription(id)
    \/ deleteAllSubscriptions
    \/ \E page \in 0..2 : changeSubsPage(page)
    \/ \E id \in IDs, initial \in BOOLEAN : Refresh(id, initial)
    \/ \E urls \in UrlLists : addSubscriptionsFromBulk(urls)
    \/ \E result \in BatchResponses(bulk.ids) : addSubscriptionsFromBulkResume(result)
    \/ \E t \in BagToSet(refreshes), data \in FetchResponses :
         fetchNodeCountReturns(t, data)
    \/ \E h \in Handles : GlobalTick(h)
    \/ \E h \in Handles : ItemTick(h)
    \/ \E b \in BagToSet(batches) : \E result \in BatchResponses(b.ids) :
         TickResume(b, result)

Spec == Init /\ [][Next]_vars

\* The scenarios with refreshes and timers keep to collections of at most
\* MaxSubs records with identifiers in IDs.
Small ==
    /\ Len(subscriptions) <= MaxSubs
    /\ \A r \in Range(subscriptions) : heap[r].id \in IDs
    /\ Range(bulk.ids) \subseteq IDs

\* ------------------------------------------------------------ the refresher
\* The store and the single-item refresher: host refreshes racing with add,
\* update, delete and re-initialization.
InitRefresh == InitWith(RefreshLists)

NextRefresh ==
    \/ Mount
    \/ \E raw \in RefreshLists : Reinitialize(raw) /\ Small'
    \/ \E url \in {HttpA} :
         Len(subscriptions) < MaxSubs /\ addSubscription(url, TRUE, 0) /\ Small'
    \/ \E url \in {HttpA, HttpB} : updateSubscription(1, url, TRUE, FALSE)
    \/ \E id \in IDs : deleteSubscription(id)
    \/ \E id \in IDs, initial \in BOOLEAN : Refresh(id, initial)
    \/ \E t \in BagToSet(refreshes), data \in FetchResponses :
         fetchNodeCountReturns(t, data)

SpecRefresh == InitRefresh /\ [][NextRefresh]_vars

\* The call a non-initial refresh of the object at position i waits for.
HostCall(i) == [sub |-> i, initial |-> FALSE, awaited |-> FALSE]

\* C9: updateSubscription for an existing id with another URL replaces the
\* stored record by one with that URL and nodeCount 0, marks dirty, and
\* leaves a refresh in flight that holds the stored record, so that its
\* fetch is for the new URL and its result is written to the stored record.
UpdateRefreshesStored ==
    [][\A id \in IDs, url \in {HttpA, HttpB} :
         (/\ FindIndex(heap, subscriptions, id) # 0
          /\ heap[subscriptions[FindIndex(heap, subscriptions, id)]].url # url
          /\ updateSubscription(id, url, TRUE, FALSE)) =>
           LET j == FindIndex(heap', subscriptions', id)
           IN  /\ j # 0
               /\ heap'[subscriptions'[j]].url = url
               /\ heap'[subscriptions'[j]].nodeCount = 0
               /\ dirtied'
               /\ BagIn(HostCall(subscriptions'[j]), refreshes')]_vars

\* C10: a refresh with isInitialLoad = false of an existing http record has
\* set isUpdating on the record when its fetch is in flight; the fetch of
\* every refresh in flight can return, with any answer; and the step in which
\* it returns, with data or with an error, ends that refresh and leaves
\* isUpdating = false on the record the refresh holds.
RefreshScopesIsUpdating ==
    /\ [](\A t \in BagToSet(refreshes) : \A data \in FetchResponses :
            /\ t.sub \in DOMAIN heap
            /\ ENABLED fetchNodeCountReturns(t, data))
    /\ [][/\ \A id \in IDs :
               LET i == FindIndex(heap, subscriptions, id)
               IN  (/\ i # 0
                    /\ IsHttp(heap[subscriptions[i]].url)
                    /\ Refresh(id, FALSE)) =>
                     /\ heap'[subscriptions[i]].isUpdating
                     /\ CopiesIn(HostCall(subscriptions[i]), refreshes')
                          = CopiesIn(HostCall(subscriptions[i]), refreshes) + 1
          /\ \A t \in BagToSet(refreshes), data \in FetchResponses :
               (~t.initial /\ fetchNodeCountReturns(t, data)) =>
                 /\ CopiesIn(t, refreshes') = CopiesIn(t, refreshes) - 1
                 /\ t.sub \in DOMAIN heap' => ~heap'[t.sub].isUpdating]_vars

\* C18: a refresh with isInitialLoad = true does not change isUpdating of
\* the record it holds, neither in the step that starts it nor in the step
\* in which its fetch returns, whatever else is in flight.
InitialLoadKeepsIsUpdating ==
    [][/\ \A id \in IDs :
            LET i == FindIndex(heap, subscriptions, id)
            IN  (i # 0 /\ Refresh(id, TRUE)) =>
                  heap'[subscriptions[i]].isUpdating
                    = heap[subscriptions[i]].isUpdating
       /\ \A t \in BagToSet(refreshes), data \in FetchResponses :
            (t.initial /\ fetchNodeCountReturns(t, data) /\ t.sub \in DOMAIN heap') =>
              heap'[t.sub].isUpdating = heap[t.sub].isUpdating]_vars

\* C20: when the fetch of a refresh returns data and the collection then
\* holds a record with the identifier the refresh was called for, that
\* record has the nodeCount and the userInfo of the response.
RefreshResultReachesStored ==
    [][\A t \in BagToSet(refreshes), data \in FetchResponses :
         (Has(data, "count") /\ fetchNodeCountReturns(t, data)) =>
           LET j == FindIndex(heap', subscriptions', heap[t.sub].id)
           IN  j # 0 =>
                 /\ heap'[subscriptions'[j]].nodeCount = data.count
                 /\ heap'[subscriptions'[j]].userInfo = data.userInfo]_vars

\* C17: initialize replaces the whole collection by the normalized host
\* list and starts no remote call: after the first initialization nothing is
\* in flight, and a re-initialization leaves the number of fetchNodeCount
\* calls in flight, the batch calls and the settings request as they were.
InitializeStartsNoCall ==
    /\ [](phase = "setup" =>
            refreshes = EmptyBag /\ batches = EmptyBag /\ settings = "none")
    /\ [][\A raw \in RefreshLists :
           Reinitialize(raw) =>
             /\ Len(subscriptions') = Len(raw)
             /\ \A i \in 1..Len(raw) :
                  heap'[subscriptions'[i]]
                    = Normalize(raw[i], heap'[subscriptions'[i]].id)
             /\ BagCardinality(refreshes') = BagCardinality(refreshes)
             /\ \A t \in BagToSet(refreshes') : t.sub > Len(subscriptions')
             /\ batches' = batches
             /\ settings' = settings]_vars

\* The host list was replaced while a refresh was in flight: the refresh
\* holds an object that is not in the collection, the collection holds a
\* fresh record with the same identifier, and no other call is in flight.
ReinitializedDuringRefresh ==
    /\ BagCardinality(refreshes) = 1
    /\ ~dirtied
    /\ \E t \in BagToSet(refreshes) :
         /\ t.sub > Len(subscriptions)
         /\ \E r \in Range(subscriptions) :
              /\ heap[r].id = heap[t.sub].id
              /\ ~heap[r].isUpdating /\ heap[t.sub].isUpdating

\* C12: the step in which the fetch of a refresh fails leaves nodeCount and
\* userInfo of every record as they were, does not mark dirty, emits the
\* failure notification exactly when isInitialLoad is false, writes the
\* error to the console, and ends the refresh: the collection and the page
\* are untouched and the call is no longer in flight.
FailedRefreshOnlyNotifies ==
    [][\A t \in BagToSet(refreshes) :
         fetchNodeCountReturns(t, [error |-> TRUE]) =>
           /\ \A r \in DOMAIN heap' :
                /\ heap'[r].nodeCount = heap[r].nodeCount
                /\ heap'[r].userInfo = heap[r].userInfo
           /\ Range(subscriptions) \subseteq DOMAIN heap'
           /\ ~dirtied'
           /\ toasts' = (IF t.initial THEN <<>> ELSE << <<"refresh-error">> >>)
           /\ logged' = <<"Failed to fetch node count">>
           /\ subscriptions' = subscriptions
           /\ subsCurrentPage' = subsCurrentPage
           /\ CopiesIn(t, refreshes') = CopiesIn(t, refreshes) - 1]_vars

\* A silent load of a record that had a count and a quota has failed: the
\* console has the error, no notification was emitted, the record has both.
SilentRefreshFailed ==
    /\ logged = <<"Failed to fetch node count">>
    /\ toasts = <<>>
    /\ ~dirtied
    /\ \E r \in Range(subscriptions) :
         heap[r].nodeCount > 0 /\ heap[r].userInfo = Quota

\* A refresh of a record of the collection has failed and no refresh is in
\* flight: the record is not updating.
RefreshFailedAndFinished ==
    /\ toasts = << <<"refresh-error">> >>
    /\ refreshes = EmptyBag
    /\ Len(subscriptions) > 0
    /\ \A r \in Range(subscriptions) : ~heap[r].isUpdating

\* ------------------------------------------- the collection and its pages
\* Records without an http URL, so that no operation starts a remote call:
\* a list longer than one page, short ones, one whose records share an
\* identifier and one whose record has none.
StoreLists ==
    {[i \in 1..MaxStore |-> [id |-> i, url |-> NodeLine]],
     <<[id |-> 1, url |-> NodeLine]>>,
     <<[id |-> 1, url |-> NodeLine], [id |-> 1, url |-> TextLine]>>,
     <<[url |-> TextLine]>>}

InitStore == InitWith(StoreLists)

NextStore ==
    \/ Mount
    \/ \E raw \in StoreLists : Reinitialize(raw)
    \/ addSubscription(NodeLine, TRUE, 0)
    \/ addSubscriptionsFromBulk(<<NodeLine, TextLine>>)
    \/ updateSubscription(1, TextLine, TRUE, FALSE)
    \/ \E id \in {1, MaxStore} : deleteSubscription(id)
    \/ deleteAllSubscriptions
    \/ \E page \in 0..3 : changeSubsPage(page)

SpecStore == InitStore /\ [][NextStore]_vars

\* C13: every record of the collection has a non-empty identifier and no
\* two records of the collection share one.
IdentifiersUnique ==
    \A i \in 1..Len(subscriptions) :
      /\ heap[subscriptions[i]].id # 0
      /\ \A j \in 1..Len(subscriptions) :
           i # j => heap[subscriptions[i]].id # heap[subscriptions[j]].id

\* C14: addSubscription puts the new record in front of the collection,
\* keeps the records that were there in their order and sets the page to 1;
\* addSubscriptionsFromBulk puts the new records in front as one block in the
\* order they were given and keeps the records that were there in their order.
NewRecordsPrepended ==
    [][/\ addSubscription(NodeLine, TRUE, 0) =>
            /\ Len(subscriptions') = Len(subscriptions) + 1
            /\ heap'[subscriptions'[1]] = Record(NewId, NodeLine, TRUE, 0)
            /\ \A k \in 1..Len(subscriptions) :
                 heap'[subscriptions'[k + 1]] = heap[subscriptions[k]]
            /\ subsCurrentPage' = 1
       /\ addSubscriptionsFromBulk(<<NodeLine, TextLine>>) =>
            /\ Len(subscriptions') = Len(subscriptions) + 2
            /\ heap'[subscriptions'[1]].url = NodeLine
            /\ heap'[subscriptions'[2]].url = TextLine
            /\ heap'[subscriptions'[1]].id # heap'[subscriptions'[2]].id
            /\ \A k \in 1..Len(subscriptions) :
                 heap'[subscriptions'[k + 2]] = heap[subscriptions[k]]]_vars

\* Two records were added one after the other to a collection and then two
\* were imported in bulk: the import is in front in the given order, the
\* added ones follow, the later one first.
ImportedBeforeAdded ==
    /\ toasts = << <<"bulk-done">> >>
    /\ Len(subscriptions) >= 5
    /\ heap[subscriptions[1]].url = NodeLine
    /\ heap[subscriptions[2]].url = TextLine
    /\ heap[subscriptions[3]].id > heap[subscriptions[4]].id
    /\ heap[subscriptions[5]].id = 1

\* C15: deleteSubscription leaves exactly the records with another
\* identifier, in their order, and marks dirty; the page goes down by one
\* when no record is left at or after the first position of the page and the
\* page is above 1, and stays otherwise.  deleteAllSubscriptions leaves no
\* record, sets the page to 1 and marks dirty.
DeleteStepsPageBack ==
    [][/\ \A id \in {1, MaxStore} :
            deleteSubscription(id) =>
              LET other(o) == o.id # id
                  before == [k \in 1..Len(subscriptions) |-> heap[subscriptions[k]]]
                  after == [k \in 1..Len(subscriptions') |-> heap'[subscriptions'[k]]]
                  sliceEmpty == Len(after) <= (subsCurrentPage - 1) * subsItemsPerPage
              IN  /\ after = SelectSeq(before, other)
                  /\ dirtied'
                  /\ subsCurrentPage' =
                       IF sliceEmpty /\ subsCurrentPage > 1
                       THEN subsCurrentPage - 1 ELSE subsCurrentPage
       /\ deleteAllSubscriptions =>
            subscriptions' = <<>> /\ subsCurrentPage' = 1 /\ dirtied']_vars

\* A record was deleted and exactly one full page of records is left, shown
\* as page 1: the only record of page 2 is gone, or one moved up from it.
DeletedDownToOnePage ==
    /\ dirtied
    /\ toasts = <<>>
    /\ Len(subscriptions) = subsItemsPerPage
    /\ subsCurrentPage = 1
    /\ \A k \in 1..Len(subscriptions) : heap[subscriptions[k]].id = k

\* C19: the page is at least 1 and at most the number of pages, or 1 when
\* the collection is empty.
PageWithinPages ==
    /\ 1 <= subsCurrentPage
    /\ subsCurrentPage <= (IF subsTotalPages(subscriptions) > 1
                           THEN subsTotalPages(subscriptions) ELSE 1)

\* ------------------------------------------------------ editing a record
\* A record is edited while it is refreshed: the host copies the stored
\* record, edits the copy and passes it to updateSubscription.
EditLists == {<<[id |-> 1, url |-> HttpA]>>, <<[url |-> HttpB, nodeCount |-> MaxCount]>>}

\* isUpdating of the host's copy: false, or what the stored record has now.
CopiedFlag(id) ==
    LET i == FindIndex(heap, subscriptions, id)
    IN  {FALSE} \cup (IF i = 0 THEN {} ELSE {heap[subscriptions[i]].isUpdating})

InitEdit == InitWith(EditLists)

NextEdit ==
    \/ Mount
    \/ \E raw \in EditLists : Reinitialize(raw) /\ Small'
    \/ \E url \in {HttpA, HttpB} : \E busy \in CopiedFlag(1) :
         updateSubscription(1, url, TRUE, busy)
    \/ Len(subscriptions) < MaxSubs /\ addSubscription(HttpA, TRUE, 0) /\ Small'
    \/ \E id \in IDs : deleteSubscription(id)
    \/ \E id \in IDs : Refresh(id, FALSE)
    \/ \E t \in BagToSet(refreshes), data \in FetchResponses :
         fetchNodeCountReturns(t, data)

SpecEdit == InitEdit /\ [][NextEdit]_vars

\* C11: a record of the collection has isUpdating = true only while a
\* non-initial refresh for its identifier is in flight.
UpdatingOnlyWhileRefreshing ==
    \A r \in Range(subscriptions) :
      heap[r].isUpdating =>
        \E t \in BagToSet(refreshes) : ~t.initial /\ heap[t.sub].id = heap[r].id

\* ------------------------------------------------- the batch refresh paths
\* Bulk import and the global timer: the two callers of batchUpdateNodes
\* over several ids, racing with delete and with a host refresh.
BulkUrlLists == {<<HttpA>>, <<NodeLine, HttpB>>, <<HttpA, HttpB>>}

InitBatch == InitWith(BatchLists)

NextBatch ==
    \/ Mount
    \/ \E resp \in {[updateInterval |-> MaxInterval]} :
         initializeUpdateInterval(resp)
    \/ \E h \in Handles : GlobalTick(h)
    \/ \E b \in BagToSet(batches) : \E result \in BatchResponses(b.ids) :
         TickResume(b, result)
    \/ \E urls \in BulkUrlLists :
         /\ Len(subscriptions) + Len(urls) <= MaxSubs
         /\ addSubscriptionsFromBulk(urls)
         /\ Small'
    \/ \E result \in BatchResponses(bulk.ids) : addSubscriptionsFromBulkResume(result)
    \/ \E id \in IDs : deleteSubscription(id)
    \/ Refresh(1, FALSE)
    \/ \E t \in BagToSet(refreshes), data \in {[error |-> TRUE], [status |-> "empty"]} :
         fetchNodeCountReturns(t, data)

SpecBatch == InitBatch /\ [][NextBatch]_vars

\* The fetchNodeCount calls the bulk import's degradation loop is waiting for.
AwaitedCalls == {t \in BagToSet(refreshes) : t.awaited}

\* The answers of batchUpdateNodes that are failures: a throw, success=false.
BatchFailures == {[error |-> TRUE], [success |-> FALSE, results |-> <<>>]}

\* C1: when the batch call of addSubscriptionsFromBulk throws or answers
\* success=false, handleUpdateNodeCount is invoked once for each submitted
\* http id, in submission order, none twice and none skipped (the ids invoked
\* so far are always a prefix of the submitted ids, and all of them at the
\* end), at most one of these refreshes is waiting for its fetch at any time,
\* and the next one is invoked only in a step that finished the previous one.
BulkDegradeSequential ==
    /\ [](/\ Cardinality(AwaitedCalls) <= 1
          /\ \A t \in AwaitedCalls : CopiesIn(t, refreshes) = 1
          /\ bulk.phase \in {"idle", "batch"} =>
                bulk.called = <<>> /\ AwaitedCalls = {}
          /\ bulk.phase \in {"degrade", "degraded"} =>
                /\ Len(bulk.called) <= Len(bulk.ids)
                /\ bulk.called = SubSeq(bulk.ids, 1, Len(bulk.called))
          /\ bulk.phase = "degrade" =>
                /\ Cardinality(AwaitedCalls) = 1
                /\ \A t \in AwaitedCalls :
                     /\ ~t.initial
                     /\ t.sub \in Range(subscriptions) =>
                          heap[t.sub].id = bulk.called[Len(bulk.called)]
          /\ bulk.phase = "degraded" =>
                bulk.called = bulk.ids /\ AwaitedCalls = {})
    /\ [][/\ bulk.phase = "batch" /\ bulk'.phase # "batch" =>
               \/ bulk' = NoBulk
               \/ /\ bulk'.phase \in {"degrade", "degraded"}
                  /\ bulk'.ids = bulk.ids
          /\ bulk.phase = "degrade" =>
               /\ bulk'.phase \in {"degrade", "degraded"}
               /\ bulk'.ids = bulk.ids
               /\ Len(bulk'.called) >= Len(bulk.called)
               /\ bulk'.called # bulk.called =>
                    \A t \in AwaitedCalls : ~BagIn(t, refreshes')]_vars

\* The degradation loop has run to its end over two submitted ids.
BulkDegradedTwo ==
    /\ bulk.phase = "degraded"
    /\ Len(bulk.ids) = 2
    /\ bulk.called = bulk.ids

\* C2, as the code has it: a global tick over a non-empty enabled http subset
\* issues one batchUpdateNodes call over exactly those ids, and when that call
\* throws or answers success=false the tick only writes to the console: no
\* single-item refresh is started, no record changes, nothing is notified and
\* nothing is marked dirty.
GlobalTickOnlyLogs ==
    [][/\ \A h \in Handles :
            GlobalTick(h) =>
              LET on == {i \in 1..Len(subscriptions) :
                           /\ heap[subscriptions[i]].enabled
                           /\ IsHttp(heap[subscriptions[i]].url)}
              IN  IF on = {}
                  THEN batches' = batches
                  ELSE \E b \in BagToSet(batches') :
                         /\ batches' = batches (+) SetToBag({b})
                         /\ b.caller = "global"
                         /\ Len(b.ids) = Cardinality(on)
                         /\ Range(b.ids) = {heap[subscriptions[i]].id : i \in on}
      /\ \A b \in BagToSet(batches), result \in BatchFailures :
            (b.caller = "global" /\ TickResume(b, result)) =>
              /\ refreshes' = refreshes
              /\ heap' = heap
              /\ subscriptions' = subscriptions
              /\ toasts' = <<>>
              /\ ~dirtied'
              /\ logged' = <<"Auto update failed">>]_vars

\* A global tick's batch call has failed while the collection holds an
\* enabled http record.
GlobalTickFailed ==
    /\ logged = <<"Auto update failed">>
    /\ \E i \in 1..Len(subscriptions) :
         heap[subscriptions[i]].enabled /\ IsHttp(heap[subscriptions[i]].url)

\* C2, as the specification has it: a global tick whose batch call throws or
\* answers success=false starts a single-item refresh of a record of the
\* batch that is still in the collection.
GlobalTickDegrades ==
    [][\A b \in BagToSet(batches), result \in BatchFailures :
         (/\ b.caller = "global"
          /\ TickResume(b, result)
          /\ \E k \in 1..Len(b.ids) :
               LET i == FindIndex(heap, subscriptions, b.ids[k])
               IN  i # 0 /\ IsHttp(heap[subscriptions[i]].url)) =>
           BagCardinality(refreshes') > BagCardinality(refreshes)]_vars

\* The answers of batchUpdateNodes(ids) with success=true.
BatchSuccesses(ids) == {[success |-> TRUE, results |-> rs] : rs \in ResultLists(ids)}

\* What the steps that consume a successful batch answer may change: only
\* nodeCount, only of the first record with the id of a successful per-id
\* result, and to that result's count.
ResultFrame(results) ==
    /\ refreshes' = refreshes
    /\ subscriptions' = subscriptions
    /\ DOMAIN heap' = DOMAIN heap
    /\ \A r \in DOMAIN heap \ Range(subscriptions) : heap'[r] = heap[r]
    /\ \A i \in 1..Len(subscriptions) :
         LET o == heap[subscriptions[i]]
             n == heap'[subscriptions[i]]
             hits == {k \in 1..Len(results) :
                        /\ results[k].success
                        /\ results[k].id = o.id
                        /\ FindIndex(heap, subscriptions, o.id) = i}
         IN  /\ n = [o EXCEPT !.nodeCount = n.nodeCount]
             /\ n.userInfo = o.userInfo
             /\ IF hits = {}
                THEN n.nodeCount = o.nodeCount
                ELSE \E k \in hits : n.nodeCount = results[k].nodeCount

\* C3: when batchUpdateNodes answers success=true, in the bulk import or in a
\* timer tick, only the records with a successful per-id result have
\* nodeCount written; the records with a failed per-id result keep theirs,
\* no userInfo changes, and no single-item refresh is started.
BatchResultFrame ==
    [][/\ \A result \in BatchSuccesses(bulk.ids) :
            addSubscriptionsFromBulkResume(result) => ResultFrame(result.results)
      /\ \A b \in BagToSet(batches) : \A result \in BatchSuccesses(b.ids) :
            TickResume(b, result) => ResultFrame(result.results)]_vars

\* A bulk import's batch call answered success=true with one of two per-id
\* results successful.
BulkPartialSuccess == toasts = << <<"bulk-success", 1, 2>> >>

\* ------------------------------------------------------------ the schedulers
\* Mount, teardown and the two schedulers, with the store operations that
\* change which records are in the array.
InitTimers == InitWith(TimerLists)

NextTimers ==
    \/ Mount
    \/ Unmount
    \/ \E resp \in SettingsResponses : initializeUpdateInterval(resp)
    \/ \E n \in 0..MaxInterval : handleUpdateIntervalChange(n)
    \/ \E id \in IDs, n \in 0..MaxInterval :
         handleSubscriptionUpdateIntervalChange(id, n)
    \/ \E raw \in TimerLists : Reinitialize(raw) /\ Small'
    \/ \E id \in IDs, en \in BOOLEAN : updateSubscription(id, HttpA, en, FALSE)
    \/ \E id \in IDs : deleteSubscription(id)
    \/ deleteAllSubscriptions
    \/ \E h \in Handles : GlobalTick(h)
    \/ \E h \in Handles : ItemTick(h)
    \/ \E b \in BagToSet(batches) : TickResume(b, [error |-> TRUE])

SpecTimers == InitTimers /\ [][NextTimers]_vars

\* The live per-item timers whose callback refreshes identifier id.
ItemTimersOf(tm, id) ==
    {h \in DOMAIN tm : tm[h].kind = "item" /\ tm[h].id = id}

\* The live per-item timers tracked on a record that is in the array.
TrackedItemTimers(h, subs, tm) ==
    {x \in DOMAIN tm : /\ tm[x].kind = "item"
                       /\ \E r \in Range(subs) : x \in h[r].updateTimers}

\* C4: from handleUpdateIntervalChange(0) until the host passes a positive
\* interval again, no global timer is live and no global tick runs, the
\* startup settings fetch being in flight or not.
ZeroStopsGlobalTicks ==
    /\ [](zeroed => \A h \in DOMAIN timers : timers[h].kind # "global")
    /\ [][zeroed => \A h \in Handles : ~GlobalTick(h)]_vars

\* C5: while mounted, every record of the collection that is enabled, has an
\* http URL and a positive updateInterval has exactly one live per-item
\* timer, and every other record of the collection has none.
EligibleHaveOneTimer ==
    phase = "mounted" =>
      \A i \in 1..Len(subscriptions) :
        LET o == heap[subscriptions[i]]
        IN  Cardinality(ItemTimersOf(timers, o.id)) = IF Eligible(o) THEN 1 ELSE 0

\* C6: after handleSubscriptionUpdateIntervalChange on an existing record the
\* live per-item timers are exactly one per eligible record of the
\* collection, each tracked on its record: no timer armed before the call
\* survives it.
IntervalChangeRearmsAll ==
    [][\A id \in IDs, n \in 0..MaxInterval :
         (/\ FindIndex(heap, subscriptions, id) # 0
          /\ handleSubscriptionUpdateIntervalChange(id, n)) =>
           /\ \A h \in DOMAIN timers' :
                timers'[h].kind = "item" =>
                  h \in TrackedItemTimers(heap', subscriptions', timers')
           /\ \A i \in 1..Len(subscriptions') :
                LET o == heap'[subscriptions'[i]]
                IN  Cardinality(ItemTimersOf(timers', o.id))
                      = IF Eligible(o) THEN 1 ELSE 0]_vars

\* C7: every live per-item timer is tracked on a record that is in the
\* collection: a record that left it took no live timer with it.
NoOrphanItemTimer ==
    \A h \in DOMAIN timers :
      timers[h].kind = "item" =>
        h \in TrackedItemTimers(heap, subscriptions, timers)

\* C8: after onUnmounted no timer is live, whatever completes afterwards, and
\* no tick callback runs.
NoTimerAfterTeardown ==
    /\ [](phase = "unmounted" => DOMAIN timers = {})
    /\ [][phase = "unmounted" =>
            \A h \in Handles : ~GlobalTick(h) /\ ~ItemTick(h)]_vars

\* --------------------------------------------------- the per-item callback
\* Records with a timer of their own, its ticks and the answers of the batch
\* call a tick waits for.
ItemLists ==
    {<<[id |-> 1, url |-> HttpA, updateInterval |-> MaxInterval]>>,
     <<[id |-> 2, url |-> HttpB, updateInterval |-> MaxInterval, userInfo |-> Quota],
       [id |-> 1, url |-> HttpA]>>}

InitItem == InitWith(ItemLists)

NextItem ==
    \/ Mount
    \/ Unmount
    \/ \E raw \in ItemLists : Reinitialize(raw) /\ Small'
    \/ \E id \in IDs, n \in 0..MaxInterval :
         handleSubscriptionUpdateIntervalChange(id, n)
    \/ \E id \in IDs : deleteSubscription(id)
    \/ \E h \in Handles : ItemTick(h)
    \/ \E b \in BagToSet(batches) : \E result \in BatchResponses(b.ids) :
         TickResume(b, result)

SpecItem == InitItem /\ [][NextItem]_vars

\* The statement of C16 as the specification has it: a tick of a per-item
\* timer starts a single-item fetch and no batch call.
ItemTickCallsRefresher ==
    [][\A h \in Handles :
         ItemTick(h) =>
           /\ batches' = batches
           /\ BagCardinality(refreshes') = BagCardinality(refreshes) + 1]_vars

\* C16: a tick of a record's per-item timer issues one batch call for the
\* list that holds only the identifier the timer was armed for, starts no
\* single-item fetch and writes no record; when that call is answered, no
\* single-item fetch is started and no userInfo and no isUpdating is written,
\* and nodeCount is written only by a successful result, to the first
\* record with that identifier; an answer with success = true notifies and
\* marks dirty, any other answer only writes to the console.
ItemTickCallsBatch ==
    [][/\ \A h \in Handles :
            ItemTick(h) =>
              /\ batches' = batches (+) SetToBag({[caller |-> "item",
                                                   ids |-> <<timers[h].id>>]})
              /\ refreshes' = refreshes
              /\ heap' = heap
       /\ \A b \in BagToSet(batches) : \A result \in BatchResponses(b.ids) :
            (b.caller = "item" /\ TickResume(b, result)) =>
              LET i == FindIndex(heap, subscriptions, b.ids[1])
                  hit == /\ ~Has(result, "error") /\ result.success
                         /\ result.results[1].success /\ i # 0
                  ok == ~Has(result, "error") /\ result.success
              IN  /\ refreshes' = refreshes
                  /\ dirtied' = ok
                  /\ toasts' = (IF ok THEN << <<"item-success">> >> ELSE <<>>)
                  /\ logged' = (IF ok THEN <<>>
                                ELSE <<"Individual auto update failed">>)
                  /\ DOMAIN heap' = DOMAIN heap
                  /\ \A r \in DOMAIN heap :
                       /\ heap'[r].userInfo = heap[r].userInfo
                       /\ heap'[r].isUpdating = heap[r].isUpdating
                       /\ heap'[r].nodeCount =
                            IF hit /\ r = subscriptions[i]
                            THEN result.results[1].nodeCount
                            ELSE heap[r].nodeCount]_vars

\* The batch call of a per-item tick was answered with a count for the
\* record: the record has the count and still no userInfo.
ItemTickWroteCount ==
    /\ toasts = << <<"item-success">> >>
    /\ \E r \in Range(subscriptions) :
         /\ heap[r].nodeCount = MaxCount
         /\ heap[r].userInfo = Null
         /\ heap[r].updateInterval > 0
====
